---------------------------- MODULE Spec2Model ----------------------------
(***************************************************************************)
(* The correction pipeline of the auto-correct-capitals editor plugin      *)
(* (src/unnamed/part_001, the revision with abbreviations and lookup       *)
(* sets): the keydown listener, handleEditorChange, the four correction    *)
(* rules and isInProtectedBlock, driven by a host editor that delivers one *)
(* change notification per buffer mutation.                                *)
(*                                                                         *)
(* A string is a sequence of characters; a character is a one-element      *)
(* name ("H", "a", " ").  Characters outside ASCII are written by name:    *)
(* "AE" is the letter A-umlaut, "ae" a-umlaut, "sz" the sharp s,            *)
(* "backtick" the grave accent and "acute" a combining acute accent.       *)
(* Positions (line numbers, columns) are 0-based as in the source; the     *)
(* accessors below translate to TLA+'s 1-based sequences.                  *)
(***************************************************************************)
EXTENDS Integers, Sequences, FiniteSets, TLC

(***************************************************************************)
(* Characters and their classes, as the source's regular expressions and   *)
(* String methods see them.                                                *)
(***************************************************************************)
\* the ASCII letters in use, lower case and upper case in the same order
LowerSeq == <<"a", "c", "e", "g", "h", "i", "l", "s", "t", "v">>
UpperSeq == <<"A", "C", "E", "G", "H", "I", "L", "S", "T", "V">>
AsciiLower == {LowerSeq[i] : i \in 1..Len(LowerSeq)}
AsciiUpper == {UpperSeq[i] : i \in 1..Len(UpperSeq)}
Digits == {"1"}
\* \p{L}: every letter, ASCII or not
Letters == AsciiUpper \cup AsciiLower \cup {"AE", "ae", "sz"}
\* \p{M}: combining marks
Marks == {"acute"}
\* \s
Whitespace == {" "}
\* \w without the i flag: [A-Za-z0-9_], also under the u flag
AsciiWordChars == AsciiUpper \cup AsciiLower \cup Digits \cup {"_"}

\* c.toUpperCase() for one character c, a string: the sharp s has the
\* two-character upper case "SS"; characters without case map to themselves
ToUpperCase(c) ==
  IF c \in AsciiLower
  THEN <<UpperSeq[CHOOSE i \in 1..Len(LowerSeq) : LowerSeq[i] = c]>>
  ELSE IF c = "ae" THEN <<"AE">>
  ELSE IF c = "sz" THEN <<"S", "S">>
  ELSE <<c>>

\* c.toLowerCase() for one character c
ToLowerCase(c) ==
  IF c \in AsciiUpper
  THEN LowerSeq[CHOOSE i \in 1..Len(UpperSeq) : UpperSeq[i] = c]
  ELSE IF c = "AE" THEN "ae"
  ELSE c

\* s.toLowerCase()
LowerStr(s) == [i \in 1..Len(s) |-> ToLowerCase(s[i])]

\* c === c.toUpperCase()
IsOwnUpper(c) == <<c>> = ToUpperCase(c)

\* c === c.toLowerCase()
IsOwnLower(c) == c = ToLowerCase(c)

\* s.slice(from) / s.substring(from, to), 0-based, to exclusive
Slice(s, from, to) ==
  LET f == IF from < 0 THEN 0 ELSE IF from > Len(s) THEN Len(s) ELSE from
      t == IF to < f THEN f ELSE IF to > Len(s) THEN Len(s) ELSE to
  IN  SubSeq(s, f + 1, t)

\* s[i], 0-based; "undefined" past the end
CharAt(s, i) == IF i >= 0 /\ i < Len(s) THEN s[i + 1] ELSE "undefined"

\* s.trim()
RECURSIVE TrimStart(_)
TrimStart(s) ==
  IF s # <<>> /\ Head(s) \in Whitespace THEN TrimStart(Tail(s)) ELSE s

RECURSIVE TrimEnd(_)
TrimEnd(s) ==
  IF s # <<>> /\ s[Len(s)] \in Whitespace
  THEN TrimEnd(SubSeq(s, 1, Len(s) - 1))
  ELSE s

Trim(s) == TrimEnd(TrimStart(s))

\* s.startsWith(p)
StartsWith(s, p) == Len(s) >= Len(p) /\ SubSeq(s, 1, Len(p)) = p

\* whether w occurs in s at 0-based index i
OccursAt(s, w, i) ==
  i >= 0 /\ i + Len(w) <= Len(s) /\ SubSeq(s, i + 1, i + Len(w)) = w

\* s.indexOf(w, from): the first index >= from, or -1
IndexOf(s, w, from) ==
  LET I == {i \in from..Len(s) : OccursAt(s, w, i)}
  IN  IF I = {} THEN -1 ELSE CHOOSE i \in I : \A j \in I : i <= j

\* s.lastIndexOf(w): the last index, or -1
LastIndexOf(s, w) ==
  LET I == {i \in 0..Len(s) : OccursAt(s, w, i)}
  IN  IF I = {} THEN -1 ELSE CHOOSE i \in I : \A j \in I : i >= j

\* the length of the longest run of characters of class C starting at
\* 0-based index i
RECURSIVE RunLen(_, _, _)
RunLen(s, i, C) ==
  IF i < Len(s) /\ s[i + 1] \in C THEN 1 + RunLen(s, i + 1, C) ELSE 0

(***************************************************************************)
(* Globals (part_001 lines 7-10) and default settings (lines 23-28).       *)
(***************************************************************************)
TRIGGER_CHARS == {" ", ".", ",", ";", ":", "!", "?", "{", "\"", ")", "]", "%", "}"}

\* [\p{L}\p{M}'] of LAST_WORD_REGEX
WordClass == Letters \cup Marks \cup {"'"}

\* [a-zäöüß] of sentenceRegex
SentenceLower == AsciiLower \cup {"ae", "sz"}

\* [A-Za-zÄÖÜäöüß] of correctSentence's second test
SentenceAlpha == AsciiUpper \cup AsciiLower \cup {"AE", "ae", "sz"}

\* [.!?] of sentenceRegex
Terminators == {".", "!", "?"}

DefaultAbbreviations ==
  << <<"e", ".", "g", ".">>, <<"i", ".", "e", ".">>,
     <<"e", "t", "c", ".">>, <<"v", "s", ".">> >>

\* new Set(list.map(x => x.toLowerCase()))
LowerSet(list) == {LowerStr(list[i]) : i \in 1..Len(list)}

(***************************************************************************)
(* Settings and their persisted form.  A field of the persisted data, or   *)
(* of this.settings, is a JSON value [t, v]: t is "absent" (no such        *)
(* property), "null", "true", "false", "string" (v holds the one string)   *)
(* or "list" (v holds the strings of an array).                            *)
(***************************************************************************)
Absent == [t |-> "absent", v |-> <<>>]
JNull == [t |-> "null", v |-> <<>>]
JBool(b) == [t |-> IF b THEN "true" ELSE "false", v |-> <<>>]
JString(str) == [t |-> "string", v |-> <<str>>]
JList(list) == [t |-> "list", v |-> list]

SettingsFields ==
  {"exclusionList", "capitalizeListItem", "capitalizeSentences", "abbreviations"}

\* DEFAULT_SETTINGS (part_001 lines 23-28)
DEFAULT_SETTINGS ==
  [exclusionList |-> JList(<<>>),
   capitalizeListItem |-> JBool(FALSE),
   capitalizeSentences |-> JBool(FALSE),
   abbreviations |-> JList(DefaultAbbreviations)]

\* Object.assign({}, DEFAULT_SETTINGS, data): every property that data has
\* replaces the default, whatever its value
LoadSettings(data) ==
  [f \in SettingsFields |->
     IF data[f] = Absent THEN DEFAULT_SETTINGS[f] ELSE data[f]]

\* what a test "if (value)" makes of a JSON value
Truthy(x) ==
  \/ x.t \in {"true", "list"}
  \/ x.t = "string" /\ x.v # <<<<>>>>

\* value.map(...) is defined for arrays only; on anything else it throws
HasMap(x) == x.t = "list"

(***************************************************************************)
(* The host buffer: getLine, getRange and replaceRange.                    *)
(***************************************************************************)
\* whether the buffer has a line n
HasLine(buf, n) == n >= 0 /\ n < Len(buf)

\* doc.getLine(n); where there is no such line the host returns undefined,
\* which the only test applied to it (!fullLine) treats like the empty string
GetLine(buf, n) == IF HasLine(buf, n) THEN buf[n + 1] ELSE <<>>

\* doc.replaceRange(text, {line, ch: from}, {line, ch: to}); positions past the
\* end of the line are clipped to it
ReplaceRange(buf, text, lineNo, from, to) ==
  LET old == buf[lineNo + 1]
      f == IF from > Len(old) THEN Len(old) ELSE from
      t == IF to > Len(old) THEN Len(old) ELSE IF to < f THEN f ELSE to
  IN  [buf EXCEPT ![lineNo + 1] =
         SubSeq(old, 1, f) \o text \o SubSeq(old, t + 1, Len(old))]

(***************************************************************************)
(* The regular expressions, by what they match.                            *)
(***************************************************************************)
\* LAST_WORD_REGEX = /[\p{L}\p{M}']+(?=\W*$)/u on line: the start indices at
\* which the expression matches.  At index i the greedy run is the longest
\* run of word-class characters; the lookahead needs every character after
\* the run to be outside [A-Za-z0-9_].  (When the rest after the longest run
\* holds an ASCII word character no shorter run passes the lookahead.)
LastWordStarts(line) ==
  {i \in 0..(Len(line) - 1) :
     /\ line[i + 1] \in WordClass
     /\ \A j \in (i + RunLen(line, i, WordClass) + 1)..Len(line) :
          line[j] \notin AsciiWordChars}

\* line.match(LAST_WORD_REGEX): <<>> for null, else <<index, match[0]>>: the
\* leftmost match
LastWordMatch(line) ==
  LET I == LastWordStarts(line)
  IN  IF I = {} THEN <<>>
      ELSE LET i == CHOOSE k \in I : \A j \in I : k <= j
           IN  <<i, Slice(line, i, i + RunLen(line, i, WordClass))>>

\* [-*] : the bullet characters LIST_ITEM_REGEX accepts
BulletChars == {"-", "*"}

\* line.match(LIST_ITEM_REGEX) with /^[-*] (\S+)/: <<>> for null, else
\* <<match[1]>>
ListItemMatch(line) ==
  IF /\ Len(line) >= 3
     /\ line[1] \in BulletChars
     /\ line[2] = " "
     /\ line[3] \notin Whitespace
  THEN <<Slice(line, 2, 2 + RunLen(line, 2, {c \in
           {line[k] : k \in 1..Len(line)} : c \notin Whitespace}))>>
  ELSE <<>>

\* s.match(NUMBERED_LIST_REGEX) with /^(\d+)\.\s+(\S+)/: <<>> for null, else
\* <<match[1], match[2]>>
NumberedMatch(s) ==
  LET nd == RunLen(s, 0, Digits)
      nw == RunLen(s, nd + 1, Whitespace)
      ws == nd + 1 + nw
      nn == RunLen(s, ws, {c \in {s[k] : k \in 1..Len(s)} : c \notin Whitespace})
  IN  IF nd >= 1 /\ CharAt(s, nd) = "." /\ nw >= 1 /\ nn >= 1
      THEN <<Slice(s, 0, nd), Slice(s, ws, ws + nn)>>
      ELSE <<>>

\* the indices that /(?:^|[.!?]\s+)([a-z...])/gu captures in line, i.e. the
\* values of match.index + match[0].length - 1 over the exec loop: index 0
\* when the line starts with a letter of the class, and every such letter
\* that follows a terminator and at least one whitespace character.  A match
\* ends on its letter and the next begins on a later terminator, so the
\* global scan finds every one of them, in increasing order.
SentenceIndices(line) ==
  {j \in 0..(Len(line) - 1) :
     /\ line[j + 1] \in SentenceLower
     /\ \/ j = 0
        \/ \E p \in 0..(j - 2) :
             /\ line[p + 1] \in Terminators
             /\ \A k \in (p + 1)..(j - 1) : line[k + 1] \in Whitespace}

\* prevText.split(/\s+/).pop() for prevText = line.substring(0, idx).trimEnd():
\* the last whitespace-delimited token before idx, <<>> for the empty string
RECURSIVE LastToken(_)
LastToken(s) ==
  IF s = <<>> \/ s[Len(s)] \in Whitespace THEN <<>>
  ELSE LastToken(SubSeq(s, 1, Len(s) - 1)) \o <<s[Len(s)]>>

PrevWord(line, idx) == LastToken(TrimEnd(Slice(line, 0, idx)))

(***************************************************************************)
(* The state a pass works on.  A pass is one run of handleEditorChange; the *)
(* rules it calls read and write the plugin's fields and the host buffer:  *)
(*   buf       the document                                                *)
(*   suppress  _suppressChangeEvent                                        *)
(*   looked    _lookedForProtectedBlock                                    *)
(*   isProt    _isInProtectedBlock                                         *)
(*   queued    change notifications of the pass's own replacements that    *)
(*             the host has not delivered yet                              *)
(*   issued    the replaceRange calls made so far, in order, each with the *)
(*             line as it stood before the call and the text replaced      *)
(*   asked     the position the classifier computed its verdict for, -1    *)
(*             while it has computed none                                  *)
(*   ran       the rules called so far, in order, each with the line it    *)
(*             was handed and the target line as the buffer held it then   *)
(*   calls     the calls of isInProtectedBlock made so far, in order, each *)
(*             with its arguments, the verdict returned and the buffer it  *)
(*             was made on                                                 *)
(***************************************************************************)
DashLine == <<"-", "-", "-">>
CodeFence == <<"backtick", "backtick", "backtick">>
MathFence == <<"$", "$">>

\* the front-matter test, were it to compare the first line without trimming it
InFrontmatterUntrimmed(buf, currentLine) ==
  /\ GetLine(buf, 0) = DashLine
  /\ \A i \in 1..(currentLine - 1) : Trim(GetLine(buf, i)) # DashLine

\* part_001 lines 267-279: the front-matter test of isInProtectedBlock
InFrontmatter(buf, currentLine) ==
  /\ Trim(GetLine(buf, 0)) = DashLine
  /\ LET closing == {i \in 1..(currentLine - 1) : Trim(GetLine(buf, i)) = DashLine}
         frontmatterEnd ==
           IF closing = {} THEN -1
           ELSE CHOOSE i \in closing : \A j \in closing : i <= j
     IN  frontmatterEnd = -1 \/ currentLine <= frontmatterEnd

\* (linesAbove.match(/^mark/gm) || []).length for linesAbove =
\* doc.getRange({0,0}, {currentLine,0}): the lines above that start with mark
FenceMatches(buf, currentLine, mark) ==
  Cardinality({i \in 0..(currentLine - 1) : StartsWith(GetLine(buf, i), mark)})

\* the loop, were a marker behind two backslashes to count as unescaped
UnescapedBeforePairingBackslashes(line, pos, ch) ==
  Cardinality({i \in 0..(Len(line) - 1) :
     /\ i < pos
     /\ line[i + 1] = ch
     /\ (i = 0 \/ line[i] # "\\" \/ (i >= 2 /\ line[i - 1] = "\\"))})

\* the loop of part_001 lines 299-304: unescaped occurrences of ch before pos
UnescapedBefore(line, pos, ch) ==
  Cardinality({i \in 0..(Len(line) - 1) :
     /\ i < pos
     /\ line[i + 1] = ch
     /\ (i = 0 \/ line[i] # "\\")})

\* the classifier, were it to leave out the count of code fences above
ComputeProtectedNoCodeFence(buf, pos, currentLine) ==
  LET line == GetLine(buf, currentLine)
  IN  \/ InFrontmatter(buf, currentLine)
      \/ FenceMatches(buf, currentLine, MathFence) % 2 # 0
      \/ UnescapedBefore(line, pos, "backtick") % 2 # 0
      \/ UnescapedBefore(line, pos, "$") % 2 # 0

\* isInProtectedBlock without its cache: part_001 lines 263-313
ComputeProtected(buf, pos, currentLine) ==
  LET line == GetLine(buf, currentLine)
  IN  \/ InFrontmatter(buf, currentLine)
      \/ FenceMatches(buf, currentLine, CodeFence) % 2 # 0
      \/ FenceMatches(buf, currentLine, MathFence) % 2 # 0
      \/ UnescapedBefore(line, pos, "backtick") % 2 # 0
      \/ UnescapedBefore(line, pos, "$") % 2 # 0

\* isInProtectedBlock(editor, pos, lineNo): the pass state after the call; the
\* returned verdict is its isProt field (every path returns the value it
\* leaves in _isInProtectedBlock)
IsInProtectedBlock(ps, pos, lineNo) ==
  LET q == IF ps.looked THEN ps
           ELSE [ps EXCEPT !.looked = TRUE,
                           !.isProt = ComputeProtected(ps.buf, pos, lineNo),
                           !.asked = pos]
  IN  [q EXCEPT !.calls = Append(@, [pos |-> pos, line |-> lineNo,
                                     verdict |-> q.isProt, doc |-> ps.buf])]

\* the host's change notification for a replacement made inside the handler.
\* Delivered at once (sync) it re-enters handleEditorChange, which finds the
\* flag set, clears it and returns (part_001 lines 100-103); otherwise it is
\* queued until the handler has returned.
NotifyOwnChange(ps, sync) ==
  IF sync THEN [ps EXCEPT !.suppress = FALSE]
  ELSE [ps EXCEPT !.queued = @ + 1]

\* this._suppressChangeEvent = true; doc.replaceRange(text, from, to)
SuppressAndReplace(ps, rule, text, lineNo, from, to, sync) ==
  NotifyOwnChange(
    [ps EXCEPT !.suppress = TRUE,
               !.buf = ReplaceRange(ps.buf, text, lineNo, from, to),
               !.issued = Append(@, [rule |-> rule, line |-> lineNo,
                                     from |-> from, to |-> to, text |-> text,
                                     before |-> ps.buf[lineNo + 1],
                                     old |-> Slice(ps.buf[lineNo + 1], from, to)])],
    sync)

\* the test "first two characters upper case, third lower case" that
\* correctListItem and correctWord share
DoubleCapital(word) ==
  /\ Len(word) >= 3
  /\ IsOwnUpper(word[1])
  /\ IsOwnUpper(word[2])
  /\ IsOwnLower(word[3])

\* correctListItem (part_001 lines 148-187); st is the plugin's settings and
\* lookup sets
CorrectListItem(ps, st, line, lineNo, sync) ==
  LET match == ListItemMatch(line)
  IN  IF match = <<>> THEN ps
      ELSE
        LET word == match[1]
            wordStart == IndexOf(line, word, 0)
            capitalise == ~IsOwnUpper(word[1])
            r1 == IF capitalise THEN ToUpperCase(word[1]) \o Tail(word) ELSE word
            repair == DoubleCapital(word)
            replacement ==
              IF repair
              THEN <<r1[1], ToLowerCase(r1[2])>> \o SubSeq(r1, 3, Len(r1))
              ELSE r1
            changed == capitalise \/ repair
        IN  IF word[1] \notin Letters \cup Marks THEN ps
            ELSE IF LowerStr(word) \in st.exclusionSet THEN ps
            ELSE IF ~changed THEN ps
            ELSE LET q == IsInProtectedBlock(ps, wordStart, lineNo)
                 IN  IF q.isProt THEN q
                     ELSE SuppressAndReplace(q, "list", replacement, lineNo,
                            wordStart, wordStart + Len(word), sync)

\* correctNumberedList (part_001 lines 189-208)
CorrectNumberedList(ps, st, line, lineNo, sync) ==
  LET match == NumberedMatch(Trim(line))
  IN  IF match = <<>> THEN ps
      ELSE
        LET word == match[2]
            markerLength == Len(match[1]) + 2
            wordStart == IndexOf(line, word, markerLength)
        IN  IF wordStart = -1 THEN ps
            ELSE IF word[1] \notin Letters \cup Marks THEN ps
            ELSE IF LowerStr(word) \in st.exclusionSet THEN ps
            ELSE LET q == IsInProtectedBlock(ps, wordStart, lineNo)
                 IN  IF q.isProt THEN q
                     ELSE IF ~IsOwnUpper(word[1])
                     THEN SuppressAndReplace(q, "numbered",
                            ToUpperCase(word[1]) \o Tail(word), lineNo,
                            wordStart, wordStart + Len(word), sync)
                     ELSE q

\* correctWord, were it to set the suppression flag before it asks whether the
\* word is protected
CorrectWordFlagFirst(ps, st, line, lineNo, sync) ==
  LET match == LastWordMatch(line)
  IN  IF match = <<>> THEN ps
      ELSE
        LET word == match[2]
            start == LastIndexOf(line, word)
        IN  IF LowerStr(word) \in st.exclusionSet THEN ps
            ELSE IF ~DoubleCapital(word) THEN ps
            ELSE LET q == IsInProtectedBlock([ps EXCEPT !.suppress = TRUE],
                                             start, lineNo)
                 IN  IF q.isProt THEN q
                     ELSE SuppressAndReplace(q, "word", <<ToLowerCase(word[2])>>,
                            lineNo, start + 1, start + 2, sync)

\* correctWord (part_001 lines 210-229)
CorrectWord(ps, st, line, lineNo, sync) ==
  LET match == LastWordMatch(line)
  IN  IF match = <<>> THEN ps
      ELSE
        LET word == match[2]
            start == LastIndexOf(line, word)
        IN  IF LowerStr(word) \in st.exclusionSet THEN ps
            ELSE IF ~DoubleCapital(word) THEN ps
            ELSE LET q == IsInProtectedBlock(ps, start, lineNo)
                 IN  IF q.isProt THEN q
                     ELSE SuppressAndReplace(q, "word", <<ToLowerCase(word[2])>>,
                            lineNo, start + 1, start + 2, sync)

\* one iteration of correctSentence's while loop, for the match whose
\* captured letter is at charIdx (part_001 lines 237-252)
SentenceStep(ps, st, line, lineNo, charIdx, sync) ==
  LET q == IsInProtectedBlock(ps, charIdx, lineNo)
      lastWord == PrevWord(line, charIdx)
      charToCheck == line[charIdx + 1]
  IN  IF q.isProt THEN q
      ELSE IF lastWord # <<>> /\ LowerStr(lastWord) \in st.abbreviationsSet THEN q
      ELSE IF charToCheck \notin SentenceAlpha
              \/ <<ToLowerCase(charToCheck)>> \in st.exclusionSet THEN q
      ELSE SuppressAndReplace(q, "sentence", ToUpperCase(charToCheck), lineNo,
             charIdx, charIdx + 1, sync)

\* the while loop over the matches at or after index from, left to right
RECURSIVE SentenceLoop(_, _, _, _, _, _)
SentenceLoop(ps, st, line, lineNo, from, sync) ==
  LET I == {j \in SentenceIndices(line) : j >= from}
  IN  IF I = {} THEN ps
      ELSE LET j == CHOOSE k \in I : \A m \in I : k <= m
           IN  SentenceLoop(SentenceStep(ps, st, line, lineNo, j, sync),
                            st, line, lineNo, j + 1, sync)

\* correctSentence (part_001 lines 231-254)
CorrectSentence(ps, st, line, lineNo, sync) ==
  SentenceLoop(ps, st, line, lineNo, 0, sync)

(***************************************************************************)
(* The plugin's state and its host.                                        *)
(*   doc, cursor        the host buffer and its cursor {line, ch}          *)
(*   settings           this.settings                                      *)
(*   stored             the plugin's persisted data, as loadData returns   *)
(*                      them                                               *)
(*   saving             whether a saveSettings call is waiting for saveData *)
(*   tabOpen            whether the settings tab is displayed, so that its  *)
(*                      onChange handlers can run                           *)
(*   phase              "constructed" before onload, "running" after it,   *)
(*                      "failed" when onload threw                         *)
(*   abbreviationsSet, exclusionSet   the derived lookup sets              *)
(*   lastKeyWasEnter, lastKeyTyped    set by the keydown listener          *)
(*   lookedForProtectedBlock, isInProtectedBlock   the classifier's cache  *)
(*   suppressChangeEvent              the suppression flag                 *)
(*   pending            change notifications the host has yet to deliver,  *)
(*                      oldest first: "user" for a user's edit, "echo" for *)
(*                      a replacement the plugin made                      *)
(*   edits              how many edits the user has made                   *)
(*   last               what the latest run of handleEditorChange did      *)
(***************************************************************************)
VARIABLES doc, cursor, settings, stored, saving, tabOpen, phase,
          abbreviationsSet, exclusionSet,
          lastKeyWasEnter, lastKeyTyped,
          lookedForProtectedBlock, isInProtectedBlock, suppressChangeEvent,
          pending, edits, last, listener, lastEdit, clipboard

vars == <<doc, cursor, settings, stored, saving, tabOpen, phase,
          abbreviationsSet, exclusionSet,
          lastKeyWasEnter, lastKeyTyped,
          lookedForProtectedBlock, isInProtectedBlock, suppressChangeEvent,
          pending, edits, last, listener, lastEdit, clipboard>>

\* how many edits the user makes in a run
MaxEdits == 2

\* the toggles as the tests of part_001 lines 126 and 139 read them
RuleToggles ==
  [capitalizeListItem |-> Truthy(settings.capitalizeListItem),
   capitalizeSentences |-> Truthy(settings.capitalizeSentences)]

\* the settings and lookup sets a rule reads
RuleSettings ==
  [exclusionSet |-> exclusionSet, abbreviationsSet |-> abbreviationsSet]

\* a call of a rule with the line it is handed, as the pass state records it
Call(ps, rule, line, lineNo) ==
  [ps EXCEPT !.ran = Append(@, [rule |-> rule, given |-> line,
                                current |-> GetLine(ps.buf, lineNo)])]

\* the rules, were the word rule called before the list rules
RunRulesWordFirst(ps0, st, cfg, fullLine, lineNo, sync) ==
  LET trimmed == Trim(fullLine)
      ps1 == CorrectWord(Call(ps0, "word", fullLine, lineNo),
                         st, fullLine, lineNo, sync)
      ps2 == IF ~cfg.capitalizeListItem THEN ps1
             ELSE IF StartsWith(trimmed, <<"-", " ">>)
             THEN CorrectListItem(Call(ps1, "list", fullLine, lineNo),
                                  st, fullLine, lineNo, sync)
             ELSE IF NumberedMatch(trimmed) # <<>>
             THEN CorrectNumberedList(Call(ps1, "numbered", fullLine, lineNo),
                                      st, fullLine, lineNo, sync)
             ELSE ps1
  IN  IF cfg.capitalizeSentences
      THEN CorrectSentence(Call(ps2, "sentence", fullLine, lineNo),
                           st, fullLine, lineNo, sync)
      ELSE ps2

\* handleEditorChange past the suppression test, lines 125-141: the rules in
\* their order, each handed the line read at line 118
RunRules(ps0, st, cfg, fullLine, lineNo, sync) ==
  LET trimmed == Trim(fullLine)
      ps1 == IF ~cfg.capitalizeListItem THEN ps0
             ELSE IF StartsWith(trimmed, <<"-", " ">>)
             THEN CorrectListItem(Call(ps0, "list", fullLine, lineNo),
                                  st, fullLine, lineNo, sync)
             ELSE IF NumberedMatch(trimmed) # <<>>
             THEN CorrectNumberedList(Call(ps0, "numbered", fullLine, lineNo),
                                      st, fullLine, lineNo, sync)
             ELSE ps0
      ps2 == CorrectWord(Call(ps1, "word", fullLine, lineNo),
                         st, fullLine, lineNo, sync)
  IN  IF cfg.capitalizeSentences
      THEN CorrectSentence(Call(ps2, "sentence", fullLine, lineNo),
                           st, fullLine, lineNo, sync)
      ELSE ps2

\* the line worked on, were the handler to stay on the cursor's line after
\* Enter
TargetLineOfCursor(cur, wasEnter) == cur.line

\* the line handleEditorChange works on (part_001 lines 107-116)
TargetLine(cur, wasEnter) ==
  IF wasEnter /\ cur.line > 0 THEN cur.line - 1 ELSE cur.line

\* the trigger test, were every change notification to pass it
TriggerOnEveryChange(fullLine, cur, wasEnter) == TRUE

\* the trigger test of part_001 line 122
Trigger(fullLine, cur, wasEnter) ==
  \/ wasEnter
  \/ LET upTo == Slice(fullLine, 0, cur.ch)
     IN  upTo # <<>> /\ upTo[Len(upTo)] \in TRIGGER_CHARS

\* the pass state, were the handler to leave the classifier's cache as the
\* notification before left it
StartPassKeepingCache(buf) ==
  [buf |-> buf, suppress |-> FALSE, looked |-> lookedForProtectedBlock,
   isProt |-> isInProtectedBlock, queued |-> 0, issued |-> <<>>, asked |-> -1,
   ran |-> <<>>, calls |-> <<>>]

\* the pass state behind part_001 lines 100-114: the suppression flag was
\* found clear and the classifier's cache has been reset
StartPass(buf) ==
  [buf |-> buf, suppress |-> FALSE, looked |-> FALSE,
   isProt |-> FALSE, queued |-> 0, issued |-> <<>>, asked |-> -1,
   ran |-> <<>>, calls |-> <<>>]

\* the handler, were it to go on with a line that has no content
HandleUnsuppressedAnyLine(buf, cur, wasEnter, st, cfg, sync) ==
  LET lineNo == TargetLine(cur, wasEnter)
      fullLine == GetLine(buf, lineNo)
      ps0 == StartPass(buf)
  IN  IF ~Trigger(fullLine, cur, wasEnter)
      THEN [kind |-> "notrigger", ps |-> ps0]
      ELSE [kind |-> "pass",
            ps |-> RunRules(ps0, st, cfg, fullLine, lineNo, sync)]

\* handleEditorChange (part_001 lines 99-142) from the suppression test on:
\* what the run did ("empty": no line content, "notrigger", or "pass") and
\* the pass state it leaves
HandleUnsuppressed(buf, cur, wasEnter, st, cfg, sync) ==
  LET lineNo == TargetLine(cur, wasEnter)
      fullLine == GetLine(buf, lineNo)
      ps0 == StartPass(buf)
  IN  IF ~HasLine(buf, lineNo) \/ fullLine = <<>>
      THEN [kind |-> "empty", ps |-> ps0]
      ELSE IF ~Trigger(fullLine, cur, wasEnter)
      THEN [kind |-> "notrigger", ps |-> ps0]
      ELSE [kind |-> "pass",
            ps |-> RunRules(ps0, st, cfg, fullLine, lineNo, sync)]

\* where the host can leave a cursor column after one replacement on the
\* cursor's line: unmoved before the range, shifted behind it, and at either
\* end of the inserted text when it stood inside the range
MapColumn(ch, r) ==
  IF ch <= r.from THEN {ch}
  ELSE IF ch >= r.to THEN {ch + Len(r.text) - (r.to - r.from)}
  ELSE {r.from, r.from + Len(r.text)}

RECURSIVE MapColumns(_, _, _)
MapColumns(chs, issued, line) ==
  IF issued = <<>> THEN chs
  ELSE MapColumns(
         IF Head(issued).line = line
         THEN UNION {MapColumn(ch, Head(issued)) : ch \in chs}
         ELSE chs,
         Tail(issued), line)

\* n "echo" notifications
Echoes(n) == [i \in 1..n |-> "echo"]

\* the record of a run of handleEditorChange: what it did (kind), for which
\* notification (note), on which line (target), from which document (pre)
\* and cursor (at) under which toggles (cfg), lookup sets (st) and settings
\* lists (lists), with which cache contents it was entered (cached), and what
\* it left
NoRun ==
  [kind |-> "none", note |-> "none", by |-> "none", target |-> 0,
   wasEnter |-> FALSE,
   pre |-> <<>>, at |-> [line |-> 0, ch |-> 0], post |-> <<>>,
   issued |-> <<>>, looked |-> FALSE, isProt |-> FALSE, asked |-> -1,
   ran |-> <<>>, calls |-> <<>>,
   cached |-> [looked |-> FALSE, isProt |-> FALSE],
   cfg |-> [capitalizeListItem |-> FALSE, capitalizeSentences |-> FALSE],
   st |-> [exclusionSet |-> {}, abbreviationsSet |-> {}],
   lists |-> [exclusionList |-> <<>>, abbreviations |-> <<>>]]

(***************************************************************************)
(* The documents and settings a run starts from.  A document is a head     *)
(* (the lines above the line the user is typing in) and that line, built   *)
(* from a prefix, a first word, a separator, a second word and a trailer.  *)
(***************************************************************************)
wHAl == <<"H", "A", "l">>
wHal == <<"H", "a", "l">>
whal == <<"h", "a", "l">>
whAl == <<"h", "A", "l">>
wHAL == <<"H", "A", "L">>
wHA == <<"H", "A">>
wHapos == <<"H", "'", "a">>
wUmlaut == <<"AE", "AE", "ae">>
wUmlautOk == <<"AE", "ae", "ae">>
wsza == <<"sz", "a">>
wa == <<"a">>
weg == <<"e", ".", "g", ".">>
none == <<>>
sp == <<" ">>

Lines(P, W1, M, W2, T) ==
  {p \o w1 \o m \o w2 \o t : p \in P, w1 \in W1, m \in M, w2 \in W2, t \in T}

\* plain lines of one or two words
WordLines ==
  Lines({none}, {none, whal, wHAl, wUmlaut}, {sp, <<".", " ">>},
        {wHAl, wHal, whal, whAl, wHAL, wHA, wHapos, wUmlaut, wUmlautOk, <<"1">>},
        {none, <<",">>})

\* list lines: a marker, the first word, and what follows it
ListLines ==
  Lines({<<"-", " ">>, <<"*", " ">>, <<"1", ".", " ">>, <<" ", "-", " ">>},
        {wHAl, wHal, whal, whAl, wHA, wHapos, wsza},
        {none, <<",">>, sp},
        {none, wHAl},
        {none})

\* lines with inline code and math markers, escaped and not
InlineLines ==
  Lines({none, <<"-", " ", "h", "a", "l", " ">>, <<"h", "a", "l", ".", " ">>},
        {none, <<"backtick">>, <<"$">>, <<"\\", "backtick">>,
         <<"\\", "\\", "$">>, <<"backtick", "a", "backtick">>,
         <<"backtick", "$">>},
        {none},
        {wHAl, whal},
        {none})

\* lines of several sentences
SentenceLines ==
  Lines({none},
        {whal, weg, wsza},
        {<<".", " ">>, <<"!", " ", " ">>, <<".">>, sp},
        {whal, wHal, weg, wa, wsza},
        {none, <<".", " ", "h", "a", "l">>})

\* lines with abbreviations: at the start of the line, in another case, and
\* after sentences that begin with a sharp s
AbbreviationLines ==
  { weg \o sp \o whal,
    <<"E", ".", "g", ".">> \o sp \o whal,
    whal \o <<".", " ">> \o weg \o sp \o whal,
    <<"sz", ".", " ", "sz", ".", " ", "sz", ".", " ", "v", "s", ".", " ",
      "a", ".", " ", "l">> }

\* a list line on which the list rule, the word rule and the sentence rule
\* each find something to correct
MixedLines ==
  {<<"-", " ">> \o whal \o <<".", " ">> \o whal \o sp \o wHAl}

\* what stands before the cursor when it is in the middle of a line, and what
\* stands behind it
MidLines == {wHAl, whal \o <<".", " ">> \o wHAl}
MidTails == {sp \o wHAl, sp \o whal, <<",">>, sp \o <<"$">> \o wHAl}

\* lines of one character: a letter, and punctuation that no pattern matches
ShortLines == {wa, <<",">>, <<"-">>}

\* the lines above: none, open and closed fences and front matter, an
\* indented fence, plain text
Heads ==
  { <<>>, <<CodeFence>>, <<MathFence>>, <<DashLine>>, <<DashLine, DashLine>>,
    <<CodeFence, CodeFence>>, <<sp \o CodeFence>>, <<whal>>,
    <<DashLine \o sp, whal>>, <<DashLine \o <<"-">>>> }

Toggles == [capitalizeListItem : BOOLEAN, capitalizeSentences : BOOLEAN]

\* persisted data that are well formed: the toggles and an exclusion list
Persisted(X) ==
  {[exclusionList |-> JList(x),
    capitalizeListItem |-> JBool(t.capitalizeListItem),
    capitalizeSentences |-> JBool(t.capitalizeSentences),
    abbreviations |-> Absent] : t \in Toggles, x \in X}

\* persisted data with fields that are absent, null or of the wrong type
PartialData ==
  [exclusionList : {Absent, JNull, JString(wHAl), JList(<<wHAl>>)},
   capitalizeListItem : {Absent, JNull, JString(whal), JBool(TRUE)},
   capitalizeSentences : {Absent, JBool(FALSE)},
   abbreviations : {Absent, JNull, JList(<<weg>>)}]

\* the lines in the editor while the settings tab is displayed
SettingsTabLines ==
  {wHAl, whal \o sp \o wHAl, <<"-", " ">> \o wHAl \o <<",">>}

\* the lines in the editor under the keydown listener of main.ts
EnterLines == {wHAl, whal \o sp \o wHAl}

\* the families of starting documents: the heads, the lines up to the cursor
\* and the rests of the line behind it that go together, the persisted
\* data, whether the settings tab is displayed, the revision whose keydown
\* listener is registered, and the text on the clipboard
Families ==
  { [heads |-> {<<>>}, lines |-> WordLines, tails |-> {<<>>},
     data |-> Persisted({<<>>, <<wHAl>>}),
     tab |-> FALSE, listener |-> "part_001", clip |-> <<>>],
    [heads |-> {<<>>}, lines |-> ListLines, tails |-> {<<>>},
     data |-> Persisted({<<>>, <<wHAl>>}),
     tab |-> FALSE, listener |-> "part_001", clip |-> <<>>],
    [heads |-> Heads, lines |-> InlineLines, tails |-> {<<>>},
     data |-> Persisted({<<>>}),
     tab |-> FALSE, listener |-> "part_001", clip |-> <<>>],
    [heads |-> {<<>>}, lines |-> SentenceLines, tails |-> {<<>>},
     data |-> Persisted({<<>>, <<wa, wHal>>}),
     tab |-> FALSE, listener |-> "part_001", clip |-> <<>>],
    [heads |-> {<<>>}, lines |-> AbbreviationLines, tails |-> {<<>>},
     data |-> Persisted({<<>>}),
     tab |-> FALSE, listener |-> "part_001", clip |-> <<>>],
    [heads |-> {<<>>}, lines |-> MixedLines, tails |-> {<<>>},
     data |-> Persisted({<<>>}),
     tab |-> FALSE, listener |-> "part_001", clip |-> <<>>],
    [heads |-> {<<>>}, lines |-> MidLines, tails |-> MidTails,
     data |-> Persisted({<<>>}),
     tab |-> FALSE, listener |-> "part_001", clip |-> <<>>],
    [heads |-> {<<>>, <<whal>>}, lines |-> ShortLines, tails |-> {<<>>},
     data |-> Persisted({<<>>}),
     tab |-> FALSE, listener |-> "part_001", clip |-> <<>>],
    [heads |-> {<<>>}, lines |-> {whal \o sp \o wHAl}, tails |-> {<<>>},
     data |-> PartialData,
     tab |-> FALSE, listener |-> "part_001", clip |-> <<>>],
    [heads |-> {<<>>}, lines |-> SettingsTabLines, tails |-> {<<>>},
     data |-> Persisted({<<>>, <<wHal>>}),
     tab |-> TRUE, listener |-> "part_001", clip |-> <<>>],
    [heads |-> {<<>>, <<wHAl>>}, lines |-> EnterLines, tails |-> {<<>>},
     data |-> Persisted({<<>>}),
     tab |-> FALSE, listener |-> "main.ts", clip |-> <<>>],
    [heads |-> {<<>>, <<wHAl>>}, lines |-> EnterLines, tails |-> {<<>>},
     data |-> Persisted({<<>>}),
     tab |-> FALSE, listener |-> "part_001", clip |-> <<"l">>] }

\* this.settings before loadSettings has assigned it
NoSettings == [f \in SettingsFields |-> Absent]

\* the plugin as constructed (the field initialisers of part_001 lines
\* 34-49), a document open in the editor, and the persisted data
Init ==
  /\ \E f \in Families :
       /\ \E h \in f.heads : \E l \in f.lines : \E t \in f.tails :
            /\ doc = h \o <<l \o t>>
            /\ cursor = [line |-> Len(h), ch |-> Len(l)]
       /\ stored \in f.data
       /\ tabOpen = f.tab
       /\ listener = f.listener
       /\ clipboard = f.clip
  /\ settings = NoSettings
  /\ saving = FALSE
  /\ phase = "constructed"
  /\ abbreviationsSet = {}
  /\ exclusionSet = {}
  /\ lastKeyWasEnter = FALSE
  /\ lastKeyTyped = ""
  /\ lookedForProtectedBlock = FALSE
  /\ isInProtectedBlock = FALSE
  /\ suppressChangeEvent = FALSE
  /\ pending = <<>>
  /\ edits = 0
  /\ last = NoRun
  /\ lastEdit = "none"

(***************************************************************************)
(* Actions.                                                                *)
(***************************************************************************)
\* onload (part_001 lines 57-75): loadSettings, then updateInternalSets,
\* which assigns abbreviationsSet and then exclusionSet and throws at the
\* first list that has no map; the listeners are registered behind it
OnLoad ==
  /\ phase = "constructed"
  /\ settings' = LoadSettings(stored)
  /\ abbreviationsSet' = IF HasMap(settings'.abbreviations)
                         THEN LowerSet(settings'.abbreviations.v)
                         ELSE abbreviationsSet
  /\ exclusionSet' = IF HasMap(settings'.abbreviations)
                        /\ HasMap(settings'.exclusionList)
                     THEN LowerSet(settings'.exclusionList.v)
                     ELSE exclusionSet
  /\ phase' = IF HasMap(settings'.abbreviations)
                 /\ HasMap(settings'.exclusionList)
              THEN "running" ELSE "failed"
  /\ UNCHANGED <<doc, cursor, stored, saving, tabOpen, lastKeyWasEnter, lastKeyTyped,
                 lookedForProtectedBlock, isInProtectedBlock,
                 suppressChangeEvent, pending, edits, last,
                 listener, lastEdit, clipboard>>

\* the exclusion lists the user enters in the settings tab
EnteredExclusions == {<<wHAl>>}

\* the onChange handler of the exclusion text area (part_001 lines 355-358)
\* up to its await: the list is assigned to this.settings and saveSettings
\* has called saveData, whose promise is not settled yet.  The user does
\* this before the first edit.
ChangeExclusionList ==
  /\ tabOpen
  /\ phase = "running"
  /\ pending = <<>>
  /\ edits = 0
  /\ ~saving
  /\ \E x \in EnteredExclusions :
       /\ JList(x) # settings.exclusionList
       /\ settings' = [settings EXCEPT !.exclusionList = JList(x)]
  /\ saving' = TRUE
  /\ UNCHANGED <<doc, cursor, stored, tabOpen, phase,
                 abbreviationsSet, exclusionSet,
                 lastKeyWasEnter, lastKeyTyped,
                 lookedForProtectedBlock, isInProtectedBlock,
                 suppressChangeEvent, pending, edits, last,
                 listener, lastEdit, clipboard>>

\* saveData has written the settings: saveSettings goes on behind its await
\* with updateInternalSets (part_001 lines 324-327, 86-93)
SaveCompleted ==
  /\ saving
  /\ saving' = FALSE
  /\ stored' = settings
  /\ abbreviationsSet' = LowerSet(settings.abbreviations.v)
  /\ exclusionSet' = LowerSet(settings.exclusionList.v)
  /\ UNCHANGED <<doc, cursor, settings, tabOpen, phase,
                 lastKeyWasEnter, lastKeyTyped,
                 lookedForProtectedBlock, isInProtectedBlock,
                 suppressChangeEvent, pending, edits, last,
                 listener, lastEdit, clipboard>>

\* the keydown listener (part_001 lines 62-69)
OnKeyDown(key) ==
  /\ lastKeyWasEnter' = (key = "Enter")
  /\ lastKeyTyped' = key

\* the keydown listener of main.ts (lines 38-42)
OnKeyDownMain(key) ==
  /\ lastKeyWasEnter' = (key = "Enter" \/ lastKeyWasEnter)
  /\ lastKeyTyped' = lastKeyTyped

\* a key goes down in the workspace: the registered listener runs
KeyDown(key) ==
  IF listener = "main.ts" THEN OnKeyDownMain(key) ELSE OnKeyDown(key)

\* a key press that changes nothing in the buffer (a key the editor ignores,
\* or a key pressed elsewhere in the workspace)
KeyDownOnly ==
  /\ phase = "running"
  /\ pending = <<>>
  /\ edits < MaxEdits
  /\ \E key \in {"Enter", "ArrowLeft"} : KeyDown(key)
  /\ UNCHANGED <<doc, cursor, settings, stored, saving, tabOpen, phase,
                 abbreviationsSet, exclusionSet,
                 lookedForProtectedBlock, isInProtectedBlock,
                 suppressChangeEvent, pending, edits, last,
                 listener, lastEdit, clipboard>>

\* the characters the user types
TypedChars == {" ", "l"}

\* the user types a character at the cursor: keydown, then the buffer
\* changes and the host owes a change notification
TypeChar ==
  /\ phase = "running"
  /\ pending = <<>>
  /\ edits < MaxEdits
  /\ \E c \in TypedChars :
       /\ KeyDown(c)
       /\ doc' = [doc EXCEPT ![cursor.line + 1] =
                    Slice(@, 0, cursor.ch) \o <<c>> \o Slice(@, cursor.ch, Len(@))]
  /\ cursor' = [cursor EXCEPT !.ch = @ + 1]
  /\ lastEdit' = "type"
  /\ pending' = <<"user">>
  /\ edits' = edits + 1
  /\ UNCHANGED <<settings, stored, saving, tabOpen, phase, abbreviationsSet, exclusionSet,
                 lookedForProtectedBlock, isInProtectedBlock,
                 suppressChangeEvent, last, listener, clipboard>>

\* the user deletes the character before the cursor: keydown, then the
\* buffer changes and the host owes a change notification
DeleteChar ==
  /\ phase = "running"
  /\ pending = <<>>
  /\ edits < MaxEdits
  /\ cursor.ch > 0
  /\ KeyDown("Backspace")
  /\ lastEdit' = "delete"
  /\ doc' = [doc EXCEPT ![cursor.line + 1] =
               Slice(@, 0, cursor.ch - 1) \o Slice(@, cursor.ch, Len(@))]
  /\ cursor' = [cursor EXCEPT !.ch = @ - 1]
  /\ pending' = <<"user">>
  /\ edits' = edits + 1
  /\ UNCHANGED <<settings, stored, saving, tabOpen, phase, abbreviationsSet, exclusionSet,
                 lookedForProtectedBlock, isInProtectedBlock,
                 suppressChangeEvent, last, listener, clipboard>>

\* the user presses Enter at the cursor: keydown, then the line is split
PressEnter ==
  /\ phase = "running"
  /\ pending = <<>>
  /\ edits < MaxEdits
  /\ KeyDown("Enter")
  /\ lastEdit' = "enter"
  /\ LET n == cursor.line + 1
         cur == doc[n]
     IN  doc' = SubSeq(doc, 1, n - 1)
                \o <<Slice(cur, 0, cursor.ch), Slice(cur, cursor.ch, Len(cur))>>
                \o SubSeq(doc, n + 1, Len(doc))
  /\ cursor' = [line |-> cursor.line + 1, ch |-> 0]
  /\ pending' = <<"user">>
  /\ edits' = edits + 1
  /\ UNCHANGED <<settings, stored, saving, tabOpen, phase, abbreviationsSet, exclusionSet,
                 lookedForProtectedBlock, isInProtectedBlock,
                 suppressChangeEvent, last, listener, clipboard>>

\* the user pastes the clipboard at the cursor with the mouse: no key goes
\* down, the buffer changes and the host owes a change notification
Paste ==
  /\ phase = "running"
  /\ pending = <<>>
  /\ edits < MaxEdits
  /\ clipboard # <<>>
  /\ doc' = [doc EXCEPT ![cursor.line + 1] =
               Slice(@, 0, cursor.ch) \o clipboard \o Slice(@, cursor.ch, Len(@))]
  /\ cursor' = [cursor EXCEPT !.ch = @ + Len(clipboard)]
  /\ lastEdit' = "paste"
  /\ pending' = <<"user">>
  /\ edits' = edits + 1
  /\ UNCHANGED <<settings, stored, saving, tabOpen, phase, abbreviationsSet, exclusionSet,
                 lastKeyWasEnter, lastKeyTyped,
                 lookedForProtectedBlock, isInProtectedBlock,
                 suppressChangeEvent, last, listener, clipboard>>

\* what produced the oldest pending change notification: the user's latest
\* edit, or a replaceRange of the plugin
ProducedBy == IF Head(pending) = "user" THEN lastEdit ELSE "echo"

\* the suppressed return, were the cache reset to come before it
ConsumeSuppressedResettingCache ==
  /\ suppressChangeEvent' = FALSE
  /\ pending' = Tail(pending)
  /\ last' = [NoRun EXCEPT !.kind = "suppressed", !.note = Head(pending),
                           !.by = ProducedBy,
                           !.pre = doc, !.at = cursor, !.post = doc]
  /\ lookedForProtectedBlock' = FALSE
  /\ isInProtectedBlock' = FALSE
  /\ UNCHANGED <<doc, cursor, lastKeyWasEnter>>

\* handleEditorChange finding the suppression flag set (part_001 lines
\* 100-103): it clears the flag and returns
ConsumeSuppressed ==
  /\ suppressChangeEvent' = FALSE
  /\ pending' = Tail(pending)
  /\ last' = [NoRun EXCEPT !.kind = "suppressed", !.note = Head(pending),
                           !.by = ProducedBy,
                           !.pre = doc, !.at = cursor, !.post = doc]
  /\ UNCHANGED <<doc, cursor, lastKeyWasEnter,
                 lookedForProtectedBlock, isInProtectedBlock>>

\* the host delivers the oldest pending change notification and
\* handleEditorChange runs to its end (part_001 lines 99-142)
EditorChange ==
  /\ pending # <<>>
  /\ IF suppressChangeEvent
     THEN ConsumeSuppressed
     ELSE \E sync \in BOOLEAN :
          \E run \in {HandleUnsuppressed(doc, cursor, lastKeyWasEnter,
                                        RuleSettings, RuleToggles, sync)} :
            LET wasEnter == lastKeyWasEnter
                ps == run.ps
            IN  /\ lastKeyWasEnter' = FALSE
                /\ lookedForProtectedBlock' = ps.looked
                /\ isInProtectedBlock' = ps.isProt
                /\ suppressChangeEvent' = ps.suppress
                /\ doc' = ps.buf
                /\ \E ch \in MapColumns({cursor.ch}, ps.issued, cursor.line) :
                     cursor' = [cursor EXCEPT !.ch = ch]
                /\ pending' = Tail(pending) \o Echoes(ps.queued)
                /\ last' = [kind |-> run.kind, note |-> Head(pending),
                            by |-> ProducedBy,
                            target |-> TargetLine(cursor, wasEnter),
                            wasEnter |-> wasEnter, pre |-> doc, at |-> cursor,
                            post |-> ps.buf, issued |-> ps.issued,
                            looked |-> ps.looked, isProt |-> ps.isProt,
                            asked |-> ps.asked,
                            ran |-> ps.ran, calls |-> ps.calls,
                            cached |-> [looked |-> lookedForProtectedBlock,
                                        isProt |-> isInProtectedBlock],
                            cfg |-> RuleToggles,
                            st |-> RuleSettings,
                            lists |-> [exclusionList |-> settings.exclusionList.v,
                                       abbreviations |-> settings.abbreviations.v]]
  /\ UNCHANGED <<settings, stored, saving, tabOpen, phase, abbreviationsSet,
                 exclusionSet, lastKeyTyped, edits, listener, lastEdit,
                 clipboard>>

Next ==
  \/ OnLoad
  \/ ChangeExclusionList
  \/ SaveCompleted
  \/ KeyDownOnly
  \/ TypeChar
  \/ DeleteChar
  \/ PressEnter
  \/ Paste
  \/ EditorChange

(***************************************************************************)
(* Properties.  They speak about the latest run of handleEditorChange as   *)
(* `last' records it.                                                      *)
(***************************************************************************)
PassRan == last.kind = "pass"
PreLine == GetLine(last.pre, last.target)
PostLine == GetLine(last.post, last.target)

\* the replaceRange calls of the latest run that a given set of rules made
IssuedBy(rules) == SelectSeq(last.issued, LAMBDA r : r.rule \in rules)
Range(f) == {f[i] : i \in 1..Len(f)}

\* a cased letter in upper case / in lower case
StrictUpper(c) == c \in Letters /\ ToLowerCase(c) # c
StrictLower(c) == c \in Letters /\ ToUpperCase(c) # <<c>>

\* no offset of line n of buf is in a protected region
Unprotected(buf, n) ==
  \A pos \in 0..Len(GetLine(buf, n)) : ~ComputeProtected(buf, pos, n)

\* the trigger of the latest run was Enter, or a character typed at the end
\* of the line
AtLineEnd == last.wasEnter \/ last.at.ch = Len(PreLine)

\* the last word of a line as section 4.4 of the specification reads it: the
\* last maximal run of letters, marks and apostrophes, the characters after
\* it being neither digits nor underscores.  <<start, word>>, or <<>>.
LastLetterRun(line) ==
  LET S == {i \in 0..(Len(line) - 1) :
              /\ line[i + 1] \in WordClass
              /\ (i = 0 \/ line[i] \notin WordClass)}
  IN  IF S = {} THEN <<>>
      ELSE LET i == CHOOSE k \in S : \A j \in S : k >= j
               n == RunLen(line, i, WordClass)
           IN  IF \A j \in (i + n + 1)..Len(line) : line[j] \notin AsciiWordChars
               THEN <<i, Slice(line, i, i + n)>>
               ELSE <<>>

\* two leading capitals and a lower-case third letter
TwoCapitals(w) ==
  Len(w) >= 3 /\ StrictUpper(w[1]) /\ StrictUpper(w[2]) /\ StrictLower(w[3])

\* the column at which the character that stood at column p of the line
\* stands after the replacements rs, or -1 when one of them changed it
RECURSIVE Track(_, _, _)
Track(p, rs, n) ==
  IF rs = <<>> \/ p = -1 THEN p
  ELSE LET r == Head(rs)
           to == IF r.to > Len(r.before) THEN Len(r.before) ELSE r.to
           from == IF r.from > to THEN to ELSE r.from
       IN  Track(IF r.line # n \/ p < from THEN p
                 ELSE IF p >= to THEN p + Len(r.text) - (to - from)
                 ELSE IF Len(r.text) = to - from
                         /\ r.text[p - from + 1] = r.before[p + 1]
                 THEN p
                 ELSE -1,
                 Tail(rs), n)

\* the latest run left the character at column p of its target line as it was
Kept(p) ==
  LET q == Track(p, last.issued, last.target)
  IN  q # -1 /\ CharAt(PostLine, q) = CharAt(PreLine, p)

(***************************************************************************)
(* C1  Word Rule.  For a pass triggered by Enter or by a trigger character *)
(* typed at the end of the line, on an unprotected line whose last word W  *)
(* has at least three characters, two leading capitals and a lower-case    *)
(* third letter, and is not excluded: the word rule replaces exactly the   *)
(* second character of W by its lower case, and, the list and sentence     *)
(* rules being disabled, the line after the pass is the line before it     *)
(* with that one character lowered.                                        *)
(***************************************************************************)
C1_Case ==
  /\ PassRan
  /\ AtLineEnd
  /\ Unprotected(last.pre, last.target)
  /\ LastLetterRun(PreLine) # <<>>
  /\ TwoCapitals(LastLetterRun(PreLine)[2])
  /\ LowerStr(LastLetterRun(PreLine)[2]) \notin last.st.exclusionSet

C1_WordRuleRepairsLastWord ==
  C1_Case =>
    LET start == LastLetterRun(PreLine)[1]
        W == LastLetterRun(PreLine)[2]
    IN  /\ \E i \in 1..Len(last.issued) :
             /\ last.issued[i].rule = "word"
             /\ last.issued[i].from = start + 1
             /\ last.issued[i].to = start + 2
             /\ last.issued[i].text = <<ToLowerCase(W[2])>>
        /\ Len(IssuedBy({"word"})) = 1
        /\ (~last.cfg.capitalizeListItem /\ ~last.cfg.capitalizeSentences)
             => PostLine = [PreLine EXCEPT ![start + 2] = ToLowerCase(W[2])]

(***************************************************************************)
(* C2  Idempotence.  Running the pipeline again on the document a pass     *)
(* has produced, for the same trigger and under the same settings, changes *)
(* nothing.                                                                *)
(***************************************************************************)
C2_SecondPassChangesNothing ==
  PassRan =>
    \A ch \in MapColumns({last.at.ch}, last.issued, last.at.line) :
      HandleUnsuppressed(last.post, [line |-> last.at.line, ch |-> ch],
                         last.wasEnter, last.st, last.cfg, TRUE).ps.buf
        = last.post

(***************************************************************************)
(* C3  Exclusion precedence.  No replacement of the word rule or of a list *)
(* rule changes a character of a word that is in the exclusion list,       *)
(* compared without regard to case, also when punctuation follows the      *)
(* word.                                                                   *)
(***************************************************************************)
\* the columns of line that lie in a run of letters, marks and apostrophes
\* which is an excluded word
ExcludedColumns(line, excl) ==
  {p \in 0..(Len(line) - 1) :
     \E i \in 0..p :
        /\ line[i + 1] \in WordClass
        /\ (i = 0 \/ line[i] \notin WordClass)
        /\ p < i + RunLen(line, i, WordClass)
        /\ LowerStr(Slice(line, i, i + RunLen(line, i, WordClass))) \in excl}

\* the columns of its line that replacement r changes
ChangedColumns(r) ==
  {p \in r.from..(r.to - 1) :
     \/ Len(r.text) # r.to - r.from
     \/ r.text[p - r.from + 1] # CharAt(r.before, p)}

C3_ExcludedWordsUntouched ==
  PassRan =>
    \A r \in Range(IssuedBy({"word", "list", "numbered"})) :
      ChangedColumns(r) \cap ExcludedColumns(r.before, last.st.exclusionSet) = {}

(***************************************************************************)
(* C4  Fenced code.  When an odd number of the lines above the target line *)
(* begin with a code fence, a pass issues no replacement and leaves the    *)
(* document as it was, whatever the settings, the trigger and the          *)
(* backticks and dollars on the target line.                               *)
(***************************************************************************)
InOpenCodeFence ==
  Cardinality({i \in 0..(last.target - 1) :
                 StartsWith(GetLine(last.pre, i), CodeFence)}) % 2 = 1

C4_NoReplacementInCodeFence ==
  (PassRan /\ InOpenCodeFence) => (last.issued = <<>> /\ last.post = last.pre)

\* a pass inside an open fence, on a line whose last word has two leading
\* capitals, that consulted the classifier
C4_FencedDoubleCapital ==
  /\ PassRan
  /\ InOpenCodeFence
  /\ last.looked
  /\ LastLetterRun(PreLine) # <<>>
  /\ TwoCapitals(LastLetterRun(PreLine)[2])

(***************************************************************************)
(* C5  Front matter.  When line 0, trimmed, is exactly three dashes and no *)
(* line between it and the target line trims to three dashes, a pass       *)
(* issues no replacement, whatever the settings.  When line 0 is not       *)
(* exactly three dashes, the verdict of the classifier is the verdict of   *)
(* the fence and inline tests alone.                                       *)
(***************************************************************************)
FrontMatterOpens == Trim(GetLine(last.pre, 0)) = DashLine

InFrontMatterBlock ==
  /\ FrontMatterOpens
  /\ \A i \in 1..(last.target - 1) : Trim(GetLine(last.pre, i)) # DashLine

\* the fence and inline tests at offset pos of line n
FenceOrInline(buf, pos, n) ==
  LET above(mark) ==
        Cardinality({i \in 0..(n - 1) : StartsWith(GetLine(buf, i), mark)})
  IN  \/ above(CodeFence) % 2 = 1
      \/ above(MathFence) % 2 = 1
      \/ UnescapedBefore(GetLine(buf, n), pos, "backtick") % 2 = 1
      \/ UnescapedBefore(GetLine(buf, n), pos, "$") % 2 = 1

C5_FrontMatterProtection ==
  /\ (PassRan /\ InFrontMatterBlock)
       => (last.issued = <<>> /\ last.post = last.pre)
  /\ (PassRan /\ ~FrontMatterOpens /\ last.looked)
       => (last.isProt = FenceOrInline(last.pre, last.asked, last.target))

\* a pass inside front matter whose first line has trailing white space, on
\* a line whose last word has two leading capitals
C5_FrontMatterDoubleCapital ==
  /\ PassRan
  /\ InFrontMatterBlock
  /\ GetLine(last.pre, 0) # DashLine
  /\ last.looked
  /\ LastLetterRun(PreLine) # <<>>
  /\ TwoCapitals(LastLetterRun(PreLine)[2])

(***************************************************************************)
(* C6  Inline code and math.  No replacement of a pass changes a character *)
(* that is preceded on its line by an odd number of unescaped backticks or *)
(* by an odd number of unescaped dollars, whichever rule makes it and      *)
(* whatever an earlier rule of the pass has examined.                      *)
(***************************************************************************)
C6_InlineRegionsUntouched ==
  PassRan =>
    \A r \in Range(last.issued) :
      \A p \in ChangedColumns(r) :
        /\ UnescapedBefore(r.before, p, "backtick") % 2 = 0
        /\ UnescapedBefore(r.before, p, "$") % 2 = 0

(***************************************************************************)
(* C7  Abbreviations.  With sentence capitalization enabled, a letter that *)
(* the sentence rule matches and whose preceding white-space delimited     *)
(* token is an abbreviation, compared without regard to case, is left      *)
(* unchanged by the pass.                                                  *)
(***************************************************************************)
AfterAbbreviation(line, j, st) ==
  /\ PrevWord(line, j) # <<>>
  /\ LowerStr(PrevWord(line, j)) \in st.abbreviationsSet

C7_AbbreviationKeepsLetter ==
  (PassRan /\ last.cfg.capitalizeSentences) =>
    \A j \in SentenceIndices(PreLine) :
      AfterAbbreviation(PreLine, j, last.st) => Kept(j)

(***************************************************************************)
(* C8  Sentence starts.  With sentence capitalization enabled, on an       *)
(* unprotected line on which the other rules make no replacement, a pass   *)
(* turns every lower-case letter at the start of the line or after a       *)
(* terminator and white space into its upper case, unless an abbreviation  *)
(* precedes it or it is excluded, and changes nothing else.                *)
(***************************************************************************)
RECURSIVE Concat(_)
Concat(ss) == IF ss = <<>> THEN <<>> ELSE Head(ss) \o Concat(Tail(ss))

SentenceStart(line, j, st) ==
  /\ j \in SentenceIndices(line)
  /\ ~AfterAbbreviation(line, j, st)
  /\ <<ToLowerCase(line[j + 1])>> \notin st.exclusionSet

SentencesCapitalized(line, st) ==
  Concat([i \in 1..Len(line) |->
            IF SentenceStart(line, i - 1, st) THEN ToUpperCase(line[i])
            ELSE <<line[i]>>])

C8_SentenceStartsCapitalized ==
  ( /\ PassRan
    /\ last.cfg.capitalizeSentences
    /\ Unprotected(last.pre, last.target)
    /\ IssuedBy({"list", "numbered", "word"}) = <<>> )
  => PostLine = SentencesCapitalized(PreLine, last.st)

(***************************************************************************)
(* C9  Dash bullets.  With list capitalization enabled, on an unprotected  *)
(* line that starts with a dash and a space and whose first word starts    *)
(* with a letter and is not excluded, a pass in which the word and         *)
(* sentence rules make no replacement capitalizes a lower-case first       *)
(* letter of that word, or lowers the second of two leading capitals that  *)
(* a lower-case letter follows, and changes nothing else.                  *)
(***************************************************************************)
\* the first word of a list line: the letters, marks and apostrophes that
\* follow the two characters of the marker
FirstWord(line) == Slice(line, 2, 2 + RunLen(line, 2, WordClass))

ListWordCorrected(w) ==
  IF StrictLower(w[1]) THEN ToUpperCase(w[1]) \o Tail(w)
  ELSE IF TwoCapitals(w) THEN [w EXCEPT ![2] = ToLowerCase(w[2])]
  ELSE w

ListCase(marker) ==
  /\ PassRan
  /\ last.cfg.capitalizeListItem
  /\ Unprotected(last.pre, last.target)
  /\ StartsWith(PreLine, marker)
  /\ CharAt(PreLine, 2) \in Letters
  /\ LowerStr(FirstWord(PreLine)) \notin last.st.exclusionSet
  /\ IssuedBy({"word", "sentence"}) = <<>>

ListLineCorrected(marker) ==
  PostLine = marker \o ListWordCorrected(FirstWord(PreLine))
                    \o Slice(PreLine, 2 + Len(FirstWord(PreLine)), Len(PreLine))

C9_DashBulletCorrected ==
  ListCase(<<"-", " ">>) => ListLineCorrected(<<"-", " ">>)

(***************************************************************************)
(* C10  Star bullets.  With list capitalization enabled, on an unprotected *)
(* line that starts with a star and a space and whose first word starts    *)
(* with a letter and is not excluded, a pass corrects the first word as it *)
(* does after a dash.                                                      *)
(***************************************************************************)
C10_StarBulletCorrected ==
  ListCase(<<"*", " ">>) => ListLineCorrected(<<"*", " ">>)

(***************************************************************************)
(* C11  Numbered items.  With list capitalization enabled, on an           *)
(* unprotected line that starts with a digit, a dot and a space and whose  *)
(* first word starts with a letter and is not excluded, the first word     *)
(* stands corrected after a pass: a lower-case first letter capitalized,   *)
(* or the second of two leading capitals that a lower-case letter follows  *)
(* lowered, also when the word is not the last word of the line.           *)
(***************************************************************************)
NumberMarker == <<"1", ".", " ">>

\* the first word after the marker of a numbered line
NumberedFirstWord(line) ==
  Slice(line, Len(NumberMarker),
        Len(NumberMarker) + RunLen(line, Len(NumberMarker), WordClass))

C11_NumberedFirstWordCorrected ==
  ( /\ PassRan
    /\ last.cfg.capitalizeListItem
    /\ Unprotected(last.pre, last.target)
    /\ StartsWith(PreLine, NumberMarker)
    /\ CharAt(PreLine, Len(NumberMarker)) \in Letters
    /\ LowerStr(NumberedFirstWord(PreLine)) \notin last.st.exclusionSet )
  => LET w == ListWordCorrected(NumberedFirstWord(PreLine))
     IN  Slice(PostLine, Len(NumberMarker), Len(NumberMarker) + Len(w)) = w

(***************************************************************************)
(* C12  Trigger gating.  When a change notification that is not suppressed *)
(* arrives, the last key was not Enter, and the target line is empty or    *)
(* the character before the cursor is not a trigger character, the handler *)
(* issues no replacement and leaves the document as it was.                *)
(***************************************************************************)
HandlerRan == last.kind \in {"empty", "notrigger", "pass"}

NoBoundaryTyped ==
  /\ HandlerRan
  /\ ~last.wasEnter
  /\ \/ PreLine = <<>>
     \/ CharAt(PreLine, last.at.ch - 1) \notin TRIGGER_CHARS

C12_NoTriggerNoReplacement ==
  NoBoundaryTyped => (last.issued = <<>> /\ last.post = last.pre)

\* a letter typed at the end of a word with two leading capitals
C12_LetterAfterDoubleCapital ==
  /\ NoBoundaryTyped
  /\ last.kind = "notrigger"
  /\ CharAt(PreLine, last.at.ch - 1) \in Letters
  /\ LastLetterRun(PreLine) # <<>>
  /\ TwoCapitals(LastLetterRun(PreLine)[2])

(***************************************************************************)
(* C13  Target line and frame.  When the last key was Enter and the cursor *)
(* is below the first line, the handler works on the line above the        *)
(* cursor and runs the rules on it whatever its last character is;         *)
(* otherwise it works on the cursor's line.  Every replacement of the pass *)
(* has both ends on that line, and every other line of the document is     *)
(* after the pass what it was before.                                      *)
(***************************************************************************)
AfterEnter == last.wasEnter /\ last.at.line > 0

C13_TargetLineAndFrame ==
  HandlerRan =>
    /\ last.target = (IF AfterEnter THEN last.at.line - 1 ELSE last.at.line)
    /\ (AfterEnter /\ GetLine(last.pre, last.at.line - 1) # <<>>)
         => last.kind = "pass"
    /\ \A r \in Range(last.issued) :
         /\ r.line = last.target
         /\ 0 <= r.from /\ r.from <= r.to /\ r.to <= Len(r.before)
    /\ Len(last.post) = Len(last.pre)
    /\ \A n \in 0..(Len(last.pre) - 1) :
         n # last.target => GetLine(last.post, n) = GetLine(last.pre, n)

\* Enter pressed behind a word that no trigger character follows: the pass
\* corrects the line above the cursor
C13_EnterCorrectsLineAbove ==
  /\ PassRan
  /\ AfterEnter
  /\ last.target = last.at.line - 1
  /\ CharAt(PreLine, Len(PreLine) - 1) \notin TRIGGER_CHARS
  /\ last.issued # <<>>
  /\ PostLine # PreLine

(***************************************************************************)
(* C14  Scan window.  In a pass that Enter did not trigger, no replacement *)
(* changes a character at or behind the cursor's column, and the word the  *)
(* word rule repairs is the last word before the cursor: when that word    *)
(* has two leading capitals and a lower-case third letter, is not excluded *)
(* and the line is unprotected, its second character is lowered.           *)
(***************************************************************************)
BeforeCursor == Slice(PreLine, 0, last.at.ch)

C15_SuppressedEchoOnlyClearsFlag ==
  [][ (suppressChangeEvent /\ pending # <<>> /\ pending' # pending) =>
        /\ ~suppressChangeEvent'
        /\ doc' = doc
        /\ cursor' = cursor
        /\ lastKeyWasEnter' = lastKeyWasEnter
        /\ lookedForProtectedBlock' = lookedForProtectedBlock
        /\ isInProtectedBlock' = isInProtectedBlock
        /\ last'.kind = "suppressed"
        /\ last'.issued = <<>> ]_vars

\* an echo was consumed while the cache held a verdict
C15_EchoConsumedWithCache ==
  /\ last.kind = "suppressed"
  /\ last.note = "echo"
  /\ lookedForProtectedBlock
  /\ ~suppressChangeEvent

(***************************************************************************)
(* C16  Single outstanding echo.  Each replaceRange call producing one     *)
(* change notification, at most one notification of the plugin's own       *)
(* replacements is issued and not yet consumed in any reachable state: no  *)
(* second replacement is issued before the echo of the first is consumed.  *)
(***************************************************************************)
OutstandingEchoes ==
  Cardinality({i \in 1..Len(pending) : pending[i] = "echo"})

C16_AtMostOneOutstandingEcho == OutstandingEchoes <= 1

(***************************************************************************)
(* C17  The flag never swallows a user's edit.  Each replacement having    *)
(* one echo that is delivered before the next notification of a user's     *)
(* edit: whenever the suppression flag is set, the next notification to be *)
(* delivered is an echo; every notification that was consumed by the flag  *)
(* was an echo; and every notification of a user's edit went on to the     *)
(* trigger test.                                                           *)
(***************************************************************************)
C17_FlagConsumedByEchoOnly ==
  /\ suppressChangeEvent => (pending # <<>> /\ Head(pending) = "echo")
  /\ last.kind = "suppressed" => last.note = "echo"
  /\ last.note = "user" => HandlerRan

\* the flag is set, with its echo outstanding, by the pass for the user's
\* second edit
C17_FlagSetAfterSecondEdit ==
  /\ suppressChangeEvent
  /\ OutstandingEchoes >= 1
  /\ PassRan
  /\ last.note = "user"
  /\ last.issued # <<>>
  /\ edits >= 2

(***************************************************************************)
(* C18  Setting gates.  With list capitalization disabled a pass makes no  *)
(* replacement of a list rule; with sentence capitalization disabled it    *)
(* makes none of the sentence rule; the word rule makes a replacement      *)
(* under every combination of the toggles whenever it makes one with both  *)
(* disabled; and with both disabled a pass changes nothing, or lowers the  *)
(* second character of the last word of the line and nothing else.         *)
(***************************************************************************)
BothOff == [capitalizeListItem |-> FALSE, capitalizeSentences |-> FALSE]

SecondOfLastWordLowered ==
  /\ LastLetterRun(PreLine) # <<>>
  /\ Len(LastLetterRun(PreLine)[2]) >= 2
  /\ PostLine = [PreLine EXCEPT ![LastLetterRun(PreLine)[1] + 2] =
                                  ToLowerCase(LastLetterRun(PreLine)[2][2])]

C18_SettingGates ==
  PassRan =>
    /\ ~last.cfg.capitalizeListItem => IssuedBy({"list", "numbered"}) = <<>>
    /\ ~last.cfg.capitalizeSentences => IssuedBy({"sentence"}) = <<>>
    /\ HandleUnsuppressed(last.pre, last.at, last.wasEnter, last.st,
                          BothOff, TRUE).ps.issued # <<>>
         => IssuedBy({"word"}) # <<>>
    /\ last.cfg = BothOff
         => /\ IssuedBy({"word"}) = last.issued
            /\ Len(last.issued) <= 1
            /\ (last.post = last.pre \/ SecondOfLastWordLowered)

(***************************************************************************)
(* C19  Defensive no-op.  When the target line has no content, because     *)
(* there is no such line or because it is empty, the handler returns       *)
(* before the trigger test; when no pattern of a rule matches the target   *)
(* line, the pass runs through.  In both cases no replacement is issued,   *)
(* the suppression flag is not set and the document stays as it was.  The  *)
(* same holds were the cursor one line past the end of the document.       *)
(***************************************************************************)
NoPatternMatches(line) ==
  /\ LastWordMatch(line) = <<>>
  /\ ListItemMatch(line) = <<>>
  /\ NumberedMatch(Trim(line)) = <<>>
  /\ SentenceIndices(line) = {}

PastTheEnd(wasEnter) ==
  HandleUnsuppressed(doc, [line |-> Len(doc) + (IF wasEnter THEN 1 ELSE 0),
                           ch |-> 0],
                     wasEnter, RuleSettings,
                     [capitalizeListItem |-> TRUE, capitalizeSentences |-> TRUE],
                     TRUE)

C19_NoContentNoOp ==
  /\ (HandlerRan /\ (~HasLine(last.pre, last.target) \/ PreLine = <<>>))
       => /\ last.kind = "empty"
          /\ last.issued = <<>>
          /\ last.post = last.pre
          /\ ~suppressChangeEvent
  /\ (PassRan /\ NoPatternMatches(PreLine))
       => /\ last.issued = <<>>
          /\ last.post = last.pre
          /\ ~suppressChangeEvent
  /\ \A wasEnter \in BOOLEAN :
       /\ PastTheEnd(wasEnter).kind = "empty"
       /\ PastTheEnd(wasEnter).ps.issued = <<>>
       /\ PastTheEnd(wasEnter).ps.buf = doc
       /\ ~PastTheEnd(wasEnter).ps.suppress

\* the user has emptied the line by deleting its only character
C19_NotificationOnEmptiedLine ==
  /\ last.kind = "empty"
  /\ last.note = "user"
  /\ ~last.wasEnter
  /\ HasLine(last.pre, last.target)
  /\ PreLine = <<>>
  /\ lastKeyTyped = "Backspace"

(***************************************************************************)
(* C20  Settings defaults.  After onload every settings field that is      *)
(* absent from the persisted data or malformed in them has its default     *)
(* (no exclusions, the preset abbreviations, both toggles false), every    *)
(* well-formed field has its persisted value, and the lookup sets have     *)
(* been built from the two lists.                                          *)
(***************************************************************************)
WellFormed(f, x) ==
  IF f \in {"capitalizeListItem", "capitalizeSentences"}
  THEN x.t \in {"true", "false"}
  ELSE x.t = "list"

Defaulted(data) ==
  [f \in SettingsFields |->
     IF WellFormed(f, data[f]) THEN data[f] ELSE DEFAULT_SETTINGS[f]]

C20_LoadedSettingsDefaulted ==
  phase # "constructed" =>
    /\ phase = "running"
    /\ settings = Defaulted(stored)
    /\ abbreviationsSet = LowerSet(Defaulted(stored).abbreviations.v)
    /\ exclusionSet = LowerSet(Defaulted(stored).exclusionList.v)

(***************************************************************************)
(* C21  No self-triggering.  Each replacement having one echo, delivered   *)
(* inside replaceRange or queued behind the handler: every echo is         *)
(* consumed by the suppression test, so that no run of the handler goes on *)
(* to the trigger test and the rules for an echo, and once every           *)
(* notification is delivered the suppression flag is clear.  This holds    *)
(* also for a pass that issues two or more replacements.                   *)
(***************************************************************************)
C21_EchoesNeverRunAPass ==
  /\ last.note = "echo" => last.kind = "suppressed"
  /\ pending = <<>> => ~suppressChangeEvent

(***************************************************************************)
(* C22  Classifier purity.  Every call of isInProtectedBlock made during a *)
(* pass returns the verdict that the front-matter test, the fence counts   *)
(* above the line and the backtick and dollar counts before the offset     *)
(* give for the offset of that call, on the buffer as it stands at the     *)
(* call: a later call of the pass does not repeat the verdict of an        *)
(* earlier one for another offset.                                         *)
(***************************************************************************)
C22_VerdictsAreOfTheirOffset ==
  PassRan =>
    \A i \in 1..Len(last.calls) :
      last.calls[i].verdict
        = ComputeProtected(last.calls[i].doc, last.calls[i].pos,
                           last.calls[i].line)

(***************************************************************************)
(* C23  Fresh line per rule.  The line a rule of a pass is handed, and     *)
(* computes its replacement from, is the target line as the buffer holds   *)
(* it when that rule starts, also after an earlier rule of the pass has    *)
(* replaced text on the line.                                              *)
(***************************************************************************)
C23_RulesReadCurrentLine ==
  PassRan =>
    \A i \in 1..Len(last.ran) : last.ran[i].given = last.ran[i].current

(***************************************************************************)
(* C24  Fence parity over trimmed lines.  In a document without front      *)
(* matter, the first call of the classifier in a pass returns true         *)
(* whenever an odd number of the lines above the target line start, once   *)
(* trimmed, with a code fence, or an odd number start, once trimmed, with  *)
(* a math fence: fence lines with leading white space count.               *)
(***************************************************************************)
\* the lines above line n of buf whose trimmed content starts with mark
TrimmedFencesAbove(buf, n, mark) ==
  Cardinality({i \in 0..(n - 1) : StartsWith(Trim(GetLine(buf, i)), mark)})

C24_TrimmedFencesProtect ==
  ( /\ PassRan
    /\ last.calls # <<>>
    /\ ~FrontMatterOpens
    /\ \/ TrimmedFencesAbove(last.pre, last.target, CodeFence) % 2 = 1
       \/ TrimmedFencesAbove(last.pre, last.target, MathFence) % 2 = 1 )
  => last.calls[1].verdict

(***************************************************************************)
(* C25  Inline parity.  For the first call of the classifier in a pass,    *)
(* the target line being outside front matter and the classifier's counts  *)
(* of code fences and of math fences above it being even: the verdict is   *)
(* true exactly when the backticks before the offset that no backslash     *)
(* immediately precedes are odd in number, or the dollars of that kind     *)
(* are.  A marker in column 0 counts; a marker behind two backslashes does *)
(* not.                                                                    *)
(***************************************************************************)
\* the markers ch in the first n columns of line that stand in column 0 or
\* behind a character other than a backslash
RECURSIVE MarkersBefore(_, _, _)
MarkersBefore(line, n, ch) ==
  IF n <= 0 THEN 0
  ELSE MarkersBefore(line, n - 1, ch)
       + (IF /\ n <= Len(line)
             /\ line[n] = ch
             /\ (n = 1 \/ line[n - 1] # "\\")
          THEN 1 ELSE 0)

\* the first classifier call of the latest run is decided by the markers on
\* the line
DecidedInline ==
  /\ PassRan
  /\ last.calls # <<>>
  /\ ~InFrontMatterBlock
  /\ Cardinality({i \in 0..(last.target - 1) :
        StartsWith(GetLine(last.pre, i), CodeFence)}) % 2 = 0
  /\ Cardinality({i \in 0..(last.target - 1) :
        StartsWith(GetLine(last.pre, i), MathFence)}) % 2 = 0

C25_InlineParityDecides ==
  DecidedInline =>
    ( last.calls[1].verdict
      <=> \/ MarkersBefore(PreLine, last.calls[1].pos, "backtick") % 2 = 1
          \/ MarkersBefore(PreLine, last.calls[1].pos, "$") % 2 = 1 )

\* the first call asks for an offset behind a dollar that two backslashes
\* precede, and is answered false
C25_DollarBehindTwoBackslashes ==
  /\ DecidedInline
  /\ ~last.calls[1].verdict
  /\ \E i \in 2..(last.calls[1].pos - 1) :
       /\ CharAt(PreLine, i) = "$"
       /\ CharAt(PreLine, i - 1) = "\\"
       /\ CharAt(PreLine, i - 2) = "\\"

(***************************************************************************)
(* C26  Memo lifetime.  Every run of the handler that is not suppressed    *)
(* starts its rules with an empty memo: when no rule consulted the         *)
(* classifier the memo is empty after the run, and when a rule did, the    *)
(* first call computed its verdict in this pass, for its own offset, from  *)
(* the document as the pass found it.  No verdict is carried over from an  *)
(* earlier notification, also across a suppressed echo.                    *)
(***************************************************************************)
C26_MemoComputedInItsPass ==
  /\ (HandlerRan /\ last.calls = <<>>)
       => (~lookedForProtectedBlock /\ ~isInProtectedBlock)
  /\ (PassRan /\ last.calls # <<>>)
       => /\ last.asked = last.calls[1].pos
          /\ last.calls[1].verdict
               = ComputeProtected(last.pre, last.calls[1].pos,
                                  last.calls[1].line)

\* the pass for the user's second edit was entered with the memo an earlier
\* notification had filled, and computed the opposite verdict
C26_StaleMemoReplaced ==
  /\ PassRan
  /\ last.note = "user"
  /\ edits >= 2
  /\ last.cached.looked
  /\ last.calls # <<>>
  /\ last.calls[1].verdict # last.cached.isProt

(***************************************************************************)
(* C27  Rule order.  The rules a pass calls are called in the sequence     *)
(* list rule, word rule, sentence rule, none of them twice: a list rule    *)
(* only when list capitalization is enabled and the trimmed line starts    *)
(* with a bullet or a number marker, the word rule in every pass, the      *)
(* sentence rule exactly when sentence capitalization is enabled.  Every   *)
(* replacement of a list rule is issued before every replacement of the    *)
(* word rule, and those before every replacement of the sentence rule.     *)
(***************************************************************************)
\* the place of a rule in the sequence
Rank(rule) ==
  IF rule \in {"list", "numbered"} THEN 1 ELSE IF rule = "word" THEN 2 ELSE 3

\* the rules the latest run called, in the order of the calls
RulesCalled == [i \in 1..Len(last.ran) |-> last.ran[i].rule]

\* a line that starts, once trimmed, with a bullet or a number marker
IsListLine(line) ==
  \/ StartsWith(Trim(line), <<"-", " ">>)
  \/ StartsWith(Trim(line), <<"*", " ">>)
  \/ NumberedMatch(Trim(line)) # <<>>

C27_RulesInFixedOrder ==
  PassRan =>
    /\ \A i, j \in 1..Len(RulesCalled) :
         i < j => Rank(RulesCalled[i]) < Rank(RulesCalled[j])
    /\ "word" \in Range(RulesCalled)
    /\ "sentence" \in Range(RulesCalled) <=> last.cfg.capitalizeSentences
    /\ Range(RulesCalled) \cap {"list", "numbered"} # {}
         => (last.cfg.capitalizeListItem /\ IsListLine(PreLine))
    /\ \A i, j \in 1..Len(last.issued) :
         i < j => Rank(last.issued[i].rule) <= Rank(last.issued[j].rule)

\* a pass in which the list rule, the word rule and the sentence rule each
\* issued a replacement
C27_AllThreeRulesReplaced ==
  /\ PassRan
  /\ IssuedBy({"list"}) # <<>>
  /\ IssuedBy({"word"}) # <<>>
  /\ IssuedBy({"sentence"}) # <<>>

(***************************************************************************)
(* C28  Correct words are left alone.  When the last word of the target    *)
(* line has fewer than three characters, or a lower-case first letter, or  *)
(* a lower-case second letter, or an upper-case third letter, the word     *)
(* rule issues no replacement in the pass, and when no other rule issues   *)
(* one the suppression flag is not set.                                    *)
(***************************************************************************)
\* a word the word rule has nothing to repair in
NothingToRepair(w) ==
  \/ Len(w) < 3
  \/ StrictLower(w[1])
  \/ StrictLower(w[2])
  \/ StrictUpper(w[3])

C28_CorrectWordUntouched ==
  ( /\ PassRan
    /\ LastLetterRun(PreLine) # <<>>
    /\ NothingToRepair(LastLetterRun(PreLine)[2]) )
  => /\ IssuedBy({"word"}) = <<>>
     /\ last.issued = <<>> => ~suppressChangeEvent

(***************************************************************************)
(* C29  Indented bullets.  With list capitalization enabled, on an         *)
(* unprotected line that starts with white space and whose trimmed content *)
(* starts with a bullet marker, the first word starting with a lower-case  *)
(* letter and not being excluded: a pass in which the word and sentence    *)
(* rules make no replacement capitalizes that letter at its column in the  *)
(* untrimmed line and changes no character outside the word.               *)
(***************************************************************************)
\* the column behind the white space and the marker of an indented bullet
BulletWordColumn(line) == Len(line) - Len(TrimStart(line)) + 2

IndentedBulletCase ==
  /\ PassRan
  /\ last.cfg.capitalizeListItem
  /\ Unprotected(last.pre, last.target)
  /\ Head(PreLine) \in Whitespace
  /\ \/ StartsWith(Trim(PreLine), <<"-", " ">>)
     \/ StartsWith(Trim(PreLine), <<"*", " ">>)
  /\ StrictLower(CharAt(PreLine, BulletWordColumn(PreLine)))
  /\ LowerStr(Slice(PreLine, BulletWordColumn(PreLine),
                    BulletWordColumn(PreLine)
                      + RunLen(PreLine, BulletWordColumn(PreLine), WordClass)))
       \notin last.st.exclusionSet
  /\ IssuedBy({"word", "sentence"}) = <<>>

C29_IndentedBulletCapitalized ==
  IndentedBulletCase =>
    LET col == BulletWordColumn(PreLine)
        n == RunLen(PreLine, col, WordClass)
        up == ToUpperCase(CharAt(PreLine, col))
    IN  /\ Slice(PostLine, 0, col) = Slice(PreLine, 0, col)
        /\ Slice(PostLine, col, col + Len(up)) = up
        /\ Slice(PostLine, col + Len(up) + n - 1, Len(PostLine))
             = Slice(PreLine, col + n, Len(PreLine))

(***************************************************************************)
(* C30  Lookup sets track the settings.  Every run of the handler that is  *)
(* not suppressed finds the exclusion lookup set equal to the lower-cased  *)
(* entries of settings.exclusionList and the abbreviation lookup set equal *)
(* to the lower-cased entries of settings.abbreviations, also while a      *)
(* settings change has been assigned and its save is not completed.        *)
(***************************************************************************)
C30_SetsFollowSettings ==
  HandlerRan =>
    /\ last.st.exclusionSet = LowerSet(last.lists.exclusionList)
    /\ last.st.abbreviationsSet = LowerSet(last.lists.abbreviations)

(***************************************************************************)
(* C31  Case-only edits.  Every replacement of a pass puts, in place of a  *)
(* range of the target line, a text of the same length that differs from   *)
(* the text it replaces in letter case at most; so the line after the pass  *)
(* has the length of the line before it and equals it when case is         *)
(* disregarded.                                                            *)
(***************************************************************************)
C31_ReplacementsChangeCaseOnly ==
  PassRan =>
    /\ \A r \in Range(last.issued) :
         /\ Len(r.text) = Len(r.old)
         /\ LowerStr(r.text) = LowerStr(r.old)
    /\ Len(PostLine) = Len(PreLine)
    /\ LowerStr(PostLine) = LowerStr(PreLine)

(***************************************************************************)
(* C32  No vacuous replacements.  The text of every replacement of a pass  *)
(* differs from the text the buffer holds in the replaced range when the   *)
(* replacement is made: none is issued for a word whose second character   *)
(* has no lower case, and the word rule issues none for a character a list *)
(* rule has corrected in the same pass.                                    *)
(***************************************************************************)
C32_ReplacementsChangeTheBuffer ==
  PassRan => \A r \in Range(last.issued) : r.text # r.old

\* C33: the Enter branch of handleEditorChange (the line above the cursor as
\* target, the trigger test passed unconditionally) is taken only for a
\* change notification that an Enter keypress produced: whenever the handler
\* runs with the Enter indicator set, the notification it handles is that of
\* the user pressing Enter in the editor, and never that of a typed
\* character, a deletion or a paste that came after an Enter keydown which
\* changed nothing.  Under the keydown listener of main.ts and under that
\* of part_001.
C33_EnterBranchOnlyForEnter ==
  (HandlerRan /\ last.wasEnter) => last.by = "enter"

Spec == Init /\ [][Next]_vars

=============================================================================
